---------------------------- MODULE Spec2Model ----------------------------
(***************************************************************************)
(* A model of the JSON error middleware of src/lib.rs: the Transform       *)
(* factory JsonMiddleware, the service JsonErrorMiddlewareDefinition that  *)
(* it builds, and the future returned by its call.                         *)
(*                                                                         *)
(* The pipeline modelled is a handler wrapped by Depth decorators, layer 1 *)
(* the innermost.  A request is handed to the outermost layer; each layer  *)
(* calls its next stage at once (line 43) and then waits for the outcome   *)
(* of that stage (line 46).  The handler's outcome is chosen by the        *)
(* environment; every layer's outcome is computed as the code computes it. *)
(***************************************************************************)
EXTENDS Integers, Sequences, FiniteSets, TLC

(***************************************************************************)
(* Bounds of the model.                                                    *)
(***************************************************************************)
\* Requests that may be in flight at once.
MaxReq == 2
\* Decorators stacked over the handler.
Depth == 2
\* Longest handler body, in bytes.
MaxBodyLen == 1

\* The branching threshold of call: `status_code.as_u16() > 299`.
ErrorThreshold == 299

Reqs == 1..MaxReq
Layers == 1..Depth
\* The handler is stage 0; the decorator of layer l is stage l.
Stages == 0..Depth

(***************************************************************************)
(* Header maps.  An actix HeaderMap maps a (lower-cased) header name to a  *)
(* non-empty list of values; here a function from the names present to a   *)
(* sequence of values.                                                     *)
(***************************************************************************)
CONTENT_TYPE == "content-type"
APPLICATION_JSON == "application/json"

EmptyHeaders == [n \in {} |-> <<>>]

contains_key(h, name) == name \in DOMAIN h

\* A bug that insert could have: the value is added to those already there
\* (this is HeaderMap::append).
insert_appending(h, name, value) ==
    [n \in (DOMAIN h) \cup {name} |->
        IF n = name
        THEN (IF name \in DOMAIN h THEN Append(h[name], value) ELSE <<value>>)
        ELSE h[n]]

\* HeaderMap::insert: the value replaces every value the name had.
insert(h, name, value) ==
    [n \in (DOMAIN h) \cup {name} |-> IF n = name THEN <<value>> ELSE h[n]]

(***************************************************************************)
(* Status codes.  http::StatusCode holds 100..=999; as_u16 is its value as *)
(* an unsigned 16-bit integer.                                             *)
(***************************************************************************)
as_u16(status) == status % 65536

\* StatusCode::canonical_reason, for the codes the model draws; None is "".
canonical_reason(status) ==
    CASE status = 100 -> "Continue"
      [] status = 200 -> "OK"
      [] status = 204 -> "No Content"
      [] status = 300 -> "Multiple Choices"
      [] status = 301 -> "Moved Permanently"
      [] status = 400 -> "Bad Request"
      [] status = 404 -> "Not Found"
      [] status = 418 -> "I'm a teapot"
      [] status = 500 -> "Internal Server Error"
      [] status = 503 -> "Service Unavailable"
      [] OTHER -> ""

\* StatusCode's Display, which to_string uses: "<code> <reason>", the reason
\* being "<unknown status code>" when there is no canonical one.
to_string(status) ==
    ToString(as_u16(status)) \o " " \o
        (IF canonical_reason(status) = ""
         THEN "<unknown status code>"
         ELSE canonical_reason(status))

(***************************************************************************)
(* The error envelope and its JSON text.  A body is a sequence of chunks:  *)
(* a handler's body is a sequence of bytes, the envelope's body the        *)
(* sequence of the JSON text's tokens, a number being one chunk per digit. *)
(***************************************************************************)
\* The struct JsonErrorMessage as call fills it.
JsonErrorMessage(status) ==
    [error |-> as_u16(status), message |-> to_string(status)]

DigitChar == <<"0", "1", "2", "3", "4", "5", "6", "7", "8", "9">>

RECURSIVE Digits(_)
\* The decimal digits of an unsigned integer, most significant first.
Digits(n) ==
    IF n < 10 THEN <<DigitChar[n + 1]>>
    ELSE Digits(n \div 10) \o <<DigitChar[(n % 10) + 1]>>

\* A JSON string: the quotes and what they hold.
JsonStr(s) == <<"\"", s, "\"">>

\* serde_json::to_string of a JsonErrorMessage: the fields in declaration
\* order, no white space.
to_json(value) ==
    <<"{">> \o JsonStr("error") \o <<":">> \o Digits(value.error)
            \o <<",">> \o JsonStr("message") \o <<":">> \o JsonStr(value.message)
            \o <<"}">>

IsDigit(c) == \E i \in 1..10 : DigitChar[i] = c

DigitValue(c) == (CHOOSE i \in 1..10 : DigitChar[i] = c) - 1

RECURSIVE ParseInt(_)
\* The number a non-empty sequence of digits denotes.
ParseInt(ds) ==
    IF Len(ds) = 1 THEN DigitValue(ds[1])
    ELSE 10 * ParseInt(SubSeq(ds, 1, Len(ds) - 1)) + DigitValue(ds[Len(ds)])

\* Reading a body back as a JsonErrorMessage, as the tests do with
\* call_and_read_body_json: [ok |-> FALSE] when the body is not one.
from_json(body) ==
    LET n == Len(body) IN
    IF /\ n >= 15
       /\ SubSeq(body, 1, 5) = <<"{", "\"", "error", "\"", ":">>
       /\ SubSeq(body, n - 8, n - 3) = <<",", "\"", "message", "\"", ":", "\"">>
       /\ SubSeq(body, n - 1, n) = <<"\"", "}">>
       /\ \A i \in 6..(n - 9) : IsDigit(body[i])
       /\ ParseInt(SubSeq(body, 6, n - 9)) < 65536
    THEN [ok |-> TRUE,
          error |-> ParseInt(SubSeq(body, 6, n - 9)),
          message |-> body[n - 2]]
    ELSE [ok |-> FALSE]

(***************************************************************************)
(* Responses and outcomes.  A response has a status, a header map, a body  *)
(* and the side of the EitherBody wrapping its body ("None": the body is   *)
(* the handler's own type B).  An outcome is what a future yields: nothing *)
(* yet, Ok(response), Err(error), or a panic unwinding out of its poll.    *)
(***************************************************************************)
NotYet == [kind |-> "NotYet"]
Ok(res) == [kind |-> "Ok", res |-> res]
Err(e) == [kind |-> "Err", err |-> e]
Panic(msg) == [kind |-> "Panic", msg |-> msg]

\* A bug the builder's use could have: the JSON text is given to body(), which
\* sets no content-type.
json_as_plain_body(status, value) ==
    [status |-> status, headers |-> EmptyHeaders, body |-> to_json(value),
     either |-> "None"]

\* HttpResponseBuilder::new(status).json(value): a response with that
\* status, the JSON text as its body, and content-type application/json
\* inserted because the new builder's headers do not hold it.
json(status, value) ==
    [status |-> status,
     headers |-> IF contains_key(EmptyHeaders, CONTENT_TYPE)
                 THEN EmptyHeaders
                 ELSE insert(EmptyHeaders, CONTENT_TYPE, APPLICATION_JSON),
     body |-> to_json(value),
     either |-> "None"]

map_into_left_body(res) == [res EXCEPT !.either = "Left"]

map_into_right_body(res) == [res EXCEPT !.either = "Right"]

\* ServiceResponse::into_response(res, response): the request of res with
\* the new response; nothing else of res is kept.
into_response(res, response) == response

\* A bug the branch test could have: only client and server errors are
\* rewritten.
IsErrorStatus_from400(status) == as_u16(status) >= 400

\* The test of line 50.
IsErrorStatus(status) == as_u16(status) > ErrorThreshold

\* A bug the error branch could have: the builder is given a fixed status.
ErrorResponse_status500(res) ==
    into_response(res,
        map_into_right_body(json(500, JsonErrorMessage(res.status))))

\* Lines 51-57: the response of the error branch.
ErrorResponse(res) ==
    into_response(res,
        map_into_right_body(json(res.status, JsonErrorMessage(res.status))))

\* A bug the pass-through branch could have: the response is built anew
\* around the body, as the error branch builds its own, and the headers the
\* next stage set are lost.
PassThrough_rebuilt(res) ==
    map_into_left_body(
        [res EXCEPT !.headers = insert(EmptyHeaders, CONTENT_TYPE, APPLICATION_JSON)])

\* Lines 59-62: the response of the pass-through branch.
PassThrough(res) ==
    map_into_left_body(
        [res EXCEPT !.headers = insert(res.headers, CONTENT_TYPE, APPLICATION_JSON)])

\* Lines 49-63: what call makes of the next stage's response.
Decorate(res) ==
    IF IsErrorStatus(res.status) THEN ErrorResponse(res) ELSE PassThrough(res)

\* Lines 45-64, the async block: the outcome of call's future given the
\* outcome awaited from the next stage.  `.ok().expect("response found")`
\* panics on an Err; a panic of the awaited future unwinds through this one.
AsyncBlock(awaited) ==
    CASE awaited.kind = "Ok" -> Ok(Decorate(awaited.res))
      [] awaited.kind = "Err" -> Panic("response found")
      [] OTHER -> awaited

\* A bug forward_ready could have: the decorator claims to be always ready
\* (actix's always_ready!).
forward_ready_always(answer) == "Ready"

\* forward_ready!(service): poll_ready is the next stage's poll_ready, its
\* error mapped by Into::into, which for Error into Error changes nothing.
forward_ready(answer) == answer

\* Transform::new_transform: the decorator holding the stage it is given.
new_transform(stage) == [service |-> stage]

(***************************************************************************)
(* What the handler may produce.                                           *)
(***************************************************************************)
Statuses == {100, 200, 204, 299, 300, 301, 404, 418, 500, 599, 600, 999}

\* The values a handler may have given content-type (<<>>: not set).
ContentTypes ==
    {<<>>, <<"text/plain">>, <<APPLICATION_JSON>>, <<"text/html", "text/plain">>}

SET_COOKIE == "set-cookie"

\* The values a handler may have given set-cookie (<<>>: not set).
Cookies == {<<>>, <<"a=1", "b=2">>}

HeaderMapOf(ct, ck) ==
    [n \in (IF ct = <<>> THEN {} ELSE {CONTENT_TYPE})
             \cup (IF ck = <<>> THEN {} ELSE {SET_COOKIE})
        |-> IF n = CONTENT_TYPE THEN ct ELSE ck]

Bytes == {"o", "k"}

Bodies == UNION {[1..n -> Bytes] : n \in 0..MaxBodyLen}

HandlerResponse(status, ct, ck, body) ==
    [status |-> status, headers |-> HeaderMapOf(ct, ck), body |-> body,
     either |-> "None"]

HandlerResponses ==
    {HandlerResponse(s, ct, ck, b) :
        s \in Statuses, ct \in ContentTypes, ck \in Cookies, b \in Bodies}

HandlerErrors == {"ErrorUnauthorized", "ErrorBadRequest"}

\* Every outcome of the handler's future.
Outcomes == {Ok(res) : res \in HandlerResponses} \cup {Err(e) : e \in HandlerErrors}

\* The outcomes drawn when several requests are in flight.
ConcOutcomes ==
    {Ok(HandlerResponse(200, <<"text/plain">>, <<"a=1", "b=2">>, <<"o">>)),
     Ok(HandlerResponse(299, <<>>, <<>>, <<>>)),
     Ok(HandlerResponse(300, <<"text/html", "text/plain">>, <<>>, <<"k">>)),
     Ok(HandlerResponse(404, <<>>, <<"a=1", "b=2">>, <<>>)),
     Err("ErrorUnauthorized")}

\* The answers of a poll_ready: Ready(Ok(())), Pending, Ready(Err(_)).
ReadyAnswers == {"Ready", "Pending", "Err"}

(***************************************************************************)
(* The state.                                                              *)
(***************************************************************************)
VARIABLES
    service,    \* service[l]: the field `service` of layer l's decorator
    pc,         \* pc[r][l]: where layer l's call for request r stands
    awaited,    \* awaited[r][l]: the outcome of `fut`, the next stage's future
    out,        \* out[r][l]: the outcome of the future call returned
    calls,      \* calls[r][s]: how often stage s's call was invoked for r
    responses,  \* responses[r][l]: how many responses layer l returned for r
    nextReady,  \* what the handler's poll_ready answers now
    lastPoll    \* lastPoll[s]: stage s's answer in the last poll_ready

vars == <<service, pc, awaited, out, calls, responses, nextReady, lastPoll>>

\* The pipeline as App::wrap builds it: layer l's decorator is made by
\* new_transform from the stage below it.
Init ==
    /\ service = [l \in Layers |-> new_transform(l - 1).service]
    /\ pc = [r \in Reqs |-> [l \in Layers |-> "Pending"]]
    /\ awaited = [r \in Reqs |-> [l \in Layers |-> NotYet]]
    /\ out = [r \in Reqs |-> [l \in Layers |-> NotYet]]
    /\ calls = [r \in Reqs |-> [s \in Stages |-> 0]]
    /\ responses = [r \in Reqs |-> [l \in Layers |-> 0]]
    /\ nextReady \in ReadyAnswers
    /\ lastPoll = [s \in Stages |-> "NotPolled"]

RECURSIVE Chain(_)
\* The stages a call of stage s reaches at once: s, and through line 43
\* the stage its decorator holds, and so on down to the handler.
Chain(s) == IF s = 0 THEN {0} ELSE {s} \cup Chain(service[s])

\* The layer whose next stage is stage s (none for the outermost).
CallerOf(s) == {l \in Layers : service[l] = s}

\* call, up to its return of the future (lines 42-43, in every layer the
\* request passes): the server calls the outermost decorator, which calls
\* its next stage before it returns.
Call(r) ==
    /\ pc[r][Depth] = "Pending"
    /\ pc' = [pc EXCEPT ![r] =
                [l \in Layers |-> IF l \in Chain(Depth) THEN "Invoked" ELSE pc[r][l]]]
    /\ calls' = [calls EXCEPT ![r] =
                [s \in Stages |-> IF s \in Chain(Depth) THEN calls[r][s] + 1
                                  ELSE calls[r][s]]]
    /\ UNCHANGED <<service, awaited, out, responses, nextReady, lastPoll>>

\* The handler's future for request r yields outcome o to the layer
\* awaiting it.
Complete(r, o) ==
    /\ calls[r][0] > 0
    /\ \A l \in CallerOf(0) : pc[r][l] = "Invoked" /\ awaited[r][l] = NotYet
    /\ awaited' = [awaited EXCEPT ![r] =
                [l \in Layers |-> IF l \in CallerOf(0) THEN o ELSE awaited[r][l]]]
    /\ UNCHANGED <<service, pc, out, calls, responses, nextReady, lastPoll>>

\* A bug the await could have: the outcome is read from a slot the requests
\* share, so another request's outcome may be taken.
AwaitFut_shared(r, l) ==
    awaited[CHOOSE q \in Reqs : awaited[q][l] # NotYet][l]

\* Line 46, `fut.await`: the outcome of the future this call made.
AwaitFut(r, l) == awaited[r][l]

\* Layer l's future for request r ends with `result`: a response returned
\* (line 57 or 62) or a panic; the layer above awaits that outcome.
Finish(r, l, result) ==
    /\ out' = [out EXCEPT ![r][l] = result]
    /\ pc' = [pc EXCEPT ![r][l] =
                IF result.kind = "Ok" THEN "Returned" ELSE "Panicked"]
    /\ responses' = [responses EXCEPT ![r][l] =
                IF result.kind = "Ok" THEN @ + 1 ELSE @]
    /\ awaited' = [awaited EXCEPT ![r] =
                [m \in Layers |-> IF m \in CallerOf(l) THEN result
                                  ELSE awaited[r][m]]]
    /\ UNCHANGED <<service, calls, nextReady, lastPoll>>

\* A bug the future could have: on a failure of the handler it calls the
\* handler again and waits anew.
Resume_retrying(r, l) ==
    /\ pc[r][l] = "Invoked"
    /\ awaited[r][l] # NotYet
    /\ IF awaited[r][l].kind = "Err" /\ service[l] = 0 /\ calls[r][0] < 2
       THEN /\ calls' = [calls EXCEPT ![r][0] = @ + 1]
            /\ awaited' = [awaited EXCEPT ![r][l] = NotYet]
            /\ UNCHANGED <<service, pc, out, responses, nextReady, lastPoll>>
       ELSE Finish(r, l, AsyncBlock(AwaitFut(r, l)))

\* Lines 45-64: layer l's future for request r resumes with the awaited
\* outcome and ends.
Resume(r, l) ==
    /\ pc[r][l] = "Invoked"
    /\ awaited[r][l] # NotYet
    /\ Finish(r, l, AsyncBlock(AwaitFut(r, l)))

RECURSIVE poll_ready(_)
\* poll_ready of stage s: the handler's own answer, or the decorator's,
\* which forward_ready! makes of its next stage's.
poll_ready(s) ==
    IF s = 0 THEN nextReady ELSE forward_ready(poll_ready(service[s]))

\* The server asks the pipeline whether it can take a request.
PollReady ==
    /\ lastPoll' = [s \in Stages |-> poll_ready(s)]
    /\ UNCHANGED <<service, pc, awaited, out, calls, responses, nextReady>>

\* The handler's readiness changes.
SetReady(a) ==
    /\ a # nextReady
    /\ nextReady' = a
    /\ UNCHANGED <<service, pc, awaited, out, calls, responses, lastPoll>>

\* One request, every outcome the handler may produce.
Next ==
    \/ \E o \in Outcomes : Complete(1, o)
    \/ Call(1)
    \/ \E l \in Layers : Resume(1, l)
    \/ PollReady
    \/ \E a \in ReadyAnswers : SetReady(a)

Spec == Init /\ [][Next]_vars

\* MaxReq requests in flight at once, in any interleaving.
NextConc ==
    \/ \E r \in Reqs : Call(r)
    \/ \E r \in Reqs, o \in ConcOutcomes : Complete(r, o)
    \/ \E r \in Reqs, l \in Layers : Resume(r, l)
    \/ PollReady
    \/ \E a \in ReadyAnswers : SetReady(a)

SpecConc == Init /\ [][NextConc]_vars

(***************************************************************************)
(* The claims.  For layer l and request r, awaited[r][l] is the outcome of *)
(* the layer's next stage and out[r][l] the outcome of the layer itself.   *)
(***************************************************************************)
\* The next stage of layer l produced a response for r, and the layer's
\* future has ended.
Decorated(r, l) == awaited[r][l].kind = "Ok" /\ out[r][l] # NotYet

\* The headers of h other than content-type are in g with the same values.
OtherHeadersKept(h, g) ==
    \A n \in (DOMAIN h) \ {CONTENT_TYPE} : n \in DOMAIN g /\ g[n] = h[n]

\* C1: if the next stage's outcome is a failure, the outcome of call's
\* future is that same failure, unmodified.
C1_FailurePropagates ==
    \A r \in Reqs, l \in Layers :
        (awaited[r][l].kind = "Err" /\ out[r][l] # NotYet)
            => out[r][l] = awaited[r][l]

\* C2: every response a decorator returns has exactly one content-type
\* value, application/json.
C2_ContentTypeIsJson ==
    \A r \in Reqs, l \in Layers :
        out[r][l].kind = "Ok" =>
            /\ CONTENT_TYPE \in DOMAIN out[r][l].res.headers
            /\ Len(out[r][l].res.headers[CONTENT_TYPE]) = 1
            /\ out[r][l].res.headers[CONTENT_TYPE][1] = APPLICATION_JSON

\* The first decorator returned a pass-through response whose next stage had
\* set two content-type values.
C2_Witness ==
    /\ out[1][1].kind = "Ok"
    /\ out[1][1].res.either = "Left"
    /\ awaited[1][1].res.headers = HeaderMapOf(<<"text/html", "text/plain">>, <<>>)

\* C3: for a next-stage response of status S > 299 the returned body reads
\* back as an envelope with error = S (so > 299 and not 0) and a non-empty
\* message.
C3_EnvelopeCorrect ==
    \A r \in Reqs, l \in Layers :
        (Decorated(r, l) /\ awaited[r][l].res.status > ErrorThreshold) =>
            /\ out[r][l].kind = "Ok"
            /\ LET e == from_json(out[r][l].res.body) IN
                /\ e.ok
                /\ e.error = awaited[r][l].res.status
                /\ e.error > 299
                /\ e.error # 0
                /\ e.message # ""

\* The boundary: a response of status 300 with a body of its own was
\* decorated.
C3_Witness ==
    /\ Decorated(1, 1)
    /\ awaited[1][1].res.status = 300
    /\ awaited[1][1].res.body # <<>>

\* C4: for a next-stage response of status S <= 299 the body and every
\* header other than content-type are returned unchanged; only content-type
\* is inserted or overwritten.
C4_PassThroughFrame ==
    \A r \in Reqs, l \in Layers :
        (Decorated(r, l) /\ awaited[r][l].res.status <= ErrorThreshold) =>
            /\ out[r][l].kind = "Ok"
            /\ out[r][l].res.body = awaited[r][l].res.body
            /\ OtherHeadersKept(awaited[r][l].res.headers, out[r][l].res.headers)
            /\ DOMAIN out[r][l].res.headers
                    = (DOMAIN awaited[r][l].res.headers) \cup {CONTENT_TYPE}

\* The boundary: a response of status 299 with a body, a cookie header and
\* another content-type was decorated.
C4_Witness ==
    /\ Decorated(1, 1)
    /\ awaited[1][1].res.status = 299
    /\ awaited[1][1].res.body # <<>>
    /\ awaited[1][1].res.headers = HeaderMapOf(<<"text/plain">>, <<"a=1", "b=2">>)

\* C5: in both branches the returned status is the next stage's status.
C5_StatusPreserved ==
    \A r \in Reqs, l \in Layers :
        Decorated(r, l) =>
            /\ out[r][l].kind = "Ok"
            /\ out[r][l].res.status = awaited[r][l].res.status

\* An error response was returned for a status other than 500.
C5_Witness ==
    /\ Decorated(1, 1)
    /\ out[1][1].res.either = "Right"
    /\ awaited[1][1].res.status = 418

\* C6: in the error branch every header the next stage had set, other than
\* content-type, is on the returned response with the same value.
C6_ErrorBranchKeepsHeaders ==
    \A r \in Reqs, l \in Layers :
        (Decorated(r, l) /\ awaited[r][l].res.status > ErrorThreshold
                         /\ out[r][l].kind = "Ok") =>
            OtherHeadersKept(awaited[r][l].res.headers, out[r][l].res.headers)

\* C7: every decorator's answer to poll_ready is its next stage's answer to
\* the same poll, whatever requests are in flight; and a decorator holds no
\* request back: each one it was called with has been passed to its next
\* stage.
C7_ReadinessDelegated ==
    /\ \A l \in Layers : lastPoll[l] = lastPoll[service[l]]
    /\ \A r \in Reqs, l \in Layers :
            pc[r][l] # "Pending" => calls[r][service[l]] = calls[r][l]

\* The pipeline was polled while a request was in flight and the handler
\* was not ready.
C7_Witness ==
    /\ lastPoll[Depth] = "Pending"
    /\ nextReady = "Pending"
    /\ pc[1][Depth] = "Invoked"

\* C8, the state part: where a layer's call stands fixes how often its next
\* stage was called, how many responses it returned and which branch ran.
C8_StateOk(r, l) ==
    /\ pc[r][l] = "Pending" =>
            /\ calls[r][service[l]] = 0
            /\ awaited[r][l] = NotYet /\ out[r][l] = NotYet
            /\ responses[r][l] = 0
    /\ pc[r][l] = "Invoked" =>
            /\ calls[r][service[l]] = 1
            /\ out[r][l] = NotYet
            /\ responses[r][l] = 0
    /\ pc[r][l] = "Returned" =>
            /\ calls[r][service[l]] = 1
            /\ awaited[r][l].kind = "Ok"
            /\ responses[r][l] = 1
            /\ out[r][l].kind = "Ok"
            /\ out[r][l].res.either \in {"Left", "Right"}
            /\ (out[r][l].res.either = "Right"
                    <=> awaited[r][l].res.status > ErrorThreshold)

\* C8, the step part: a call only moves forward, Pending to Invoked to
\* Returned, the last only once the next stage's response is there; its next
\* stage is never called again.  (A next stage that fails produces no
\* response: that call ends the way C1 describes, outside these states.)
C8_StepOk(r, l) ==
    /\ pc'[r][l] # pc[r][l] =>
            \/ pc[r][l] = "Pending" /\ pc'[r][l] = "Invoked"
            \/ /\ pc[r][l] = "Invoked" /\ pc'[r][l] = "Returned"
               /\ awaited[r][l].kind = "Ok"
            \/ /\ pc[r][l] = "Invoked" /\ pc'[r][l] = "Panicked"
               /\ awaited[r][l].kind \in {"Err", "Panic"}
    /\ pc[r][l] # "Pending" => calls'[r][service[l]] = calls[r][service[l]]
    /\ pc[r][l] = "Returned" => out'[r][l] = out[r][l]

\* C8: each request moves through Pending, Invoked, one of the two
\* decorated branches (error iff status > 299) and Returned, in that order,
\* its next stage called exactly once and exactly one response returned.
C8_RequestStateMachine ==
    /\ [](\A r \in Reqs, l \in Layers : C8_StateOk(r, l))
    /\ [][\A r \in Reqs, l \in Layers : C8_StepOk(r, l)]_vars

\* Both branches ran, one for each of two requests.
C8_Witness ==
    /\ pc[1][1] = "Returned" /\ out[1][1].res.either = "Right"
    /\ pc[2][1] = "Returned" /\ out[2][1].res.either = "Left"

\* C9, the state part: a layer's outcome for r is the decoration of r's own
\* next-stage outcome, and each layer awaits the stage its decorator holds.
C9_OwnResponse(r, l) ==
    /\ out[r][l] # NotYet => out[r][l] = AsyncBlock(awaited[r][l])
    /\ out[r][l].kind = "Ok" =>
            out[r][l].res.status = awaited[r][l].res.status
    /\ (service[l] # 0 /\ awaited[r][l] # NotYet) =>
            awaited[r][l] = out[r][service[l]]

\* C9: with any number of requests in flight and any interleaving, each
\* request is returned the decoration of its own next-stage response, and
\* the decorator's next-stage reference never changes.
C9_Independent ==
    /\ [](\A r \in Reqs, l \in Layers : C9_OwnResponse(r, l))
    /\ [](service = [l \in Layers |-> l - 1])
    /\ [][service' = service]_vars

\* Request 1 was returned its response while request 2, whose next stage
\* produced another outcome, is still in flight.
C9_Witness ==
    /\ pc[1][Depth] = "Returned"
    /\ pc[2][1] = "Invoked"
    /\ awaited[2][1].kind = "Ok"
    /\ awaited[2][1] # awaited[1][1]

\* What a client sees of an outcome: status, headers and body bytes.
Visible(o) ==
    [status |-> o.res.status, headers |-> o.res.headers, body |-> o.res.body]

\* C10: a response passed through stacked decorators has the status,
\* headers and body it has after the first of them.
C10_StackingIdempotent ==
    \A r \in Reqs, l \in Layers :
        (awaited[r][1].kind = "Ok" /\ out[r][l] # NotYet) =>
            /\ out[r][l].kind = "Ok"
            /\ Visible(out[r][l]) = Visible(out[r][1])

\* The outer decorator returned a pass-through response whose handler had
\* set another content-type.
C10_Witness ==
    /\ Depth > 1
    /\ out[1][Depth].kind = "Ok"
    /\ awaited[1][1].res.status = 204
    /\ awaited[1][1].res.headers = HeaderMapOf(<<"text/plain">>, <<"a=1", "b=2">>)
=============================================================================
